---- MODULE Spec2Model ----
(***************************************************************************)
(* Model of the Slack bot event pipeline of timeless-systems/ix:           *)
(*   backend/danswer/bots/slack/listener.py                                *)
(*   backend/danswer/bots/slack/handlers/handle_message.py                 *)
(* and of the two file connectors that feed the index:                     *)
(*   backend/danswer/connectors/file/connector.py                          *)
(*   backend/danswer/connectors/langchain/connector.py                     *)
(*                                                                         *)
(* One socket-mode request at a time travels through process_slack_event.  *)
(* Every call that leaves the process (socket acknowledgment, Slack Web    *)
(* API call, QA engine call, backoff sleep) is appended to `trace`, the    *)
(* observable history of the event being processed.  A call to the Slack   *)
(* Web API or to the engine may raise; the raise is drawn with \E at the   *)
(* call site.                                                              *)
(*                                                                         *)
(* Python values: None is the string "None"; a str is a sequence of        *)
(* one-character strings (so that `in`, re.sub and truthiness are          *)
(* computed, not assumed); a delay is counted in units of 0.25 s.          *)
(***************************************************************************)
EXTENDS Integers, Sequences, FiniteSets, TLC

VARIABLES
    pc,                 \* position of the listener thread in the code
    received,           \* number of requests delivered so far (envelope ids)
    req,                \* SocketModeRequest being processed (dead after line 258)
    trace,              \* calls made for the current request, in order
    exc,                \* exception in flight: [type, origin]
    details,            \* SlackMessageInfo built at line 258
    respond_every_channel,           \* process_message parameter
    slack_bot_config,   \* result of get_slack_bot_config_for_channel
    num_retries,        \* handle_message parameters
    should_respond_with_error_msgs,
    disable_docs_only_answer,
    reflexion,          \* handle_message locals
    send_to,
    respond_team_member_list,
    tries,              \* retry decorator: _tries
    delay,              \* retry decorator: _delay, in quarter seconds
    answer,             \* QAResponse returned by _get_answer
    failed,             \* return value of handle_message
    \* LocalFileConnector.load_from_state
    file_locations,     \* self.file_locations
    batch_size,         \* self.batch_size
    load_pc,            \* position of the generator
    location,           \* index of file_location in self.file_locations
    opened,             \* files of `files` already taken by the inner loop
    documents,          \* the local list `documents`
    batches,            \* the lists yielded so far, in order
    \* LangchainFileConnector._load_documents_from_filesystem
    filtered_files,     \* the paths found by glob
    threads,            \* position of each loader thread, by file
    processed,          \* files moved to DOCS_PROCESSED_DIRECTORY
    results,            \* the shared list `results`
    results_lock,       \* self.results_lock: the file whose thread holds it, or 0
    main_pc,            \* position of the calling thread
    main_i,             \* index of its current loop
    returned            \* the list as it is when line 196 returns it

file_vars == <<file_locations, batch_size, load_pc, location, opened,
               documents, batches>>
langchain_vars == <<filtered_files, threads, processed, results, results_lock,
                    main_pc, main_i, returned>>
connector_vars == <<file_vars, langchain_vars>>

vars == <<pc, received, req, trace, exc, details, respond_every_channel,
          slack_bot_config, num_retries, should_respond_with_error_msgs,
          disable_docs_only_answer, reflexion, send_to,
          respond_team_member_list, tries, delay, answer, failed,
          connector_vars>>

None == "None"

\* ---------------------------------------------------------------- bounds
MaxEvents == 2      \* requests delivered in one run
MaxTries  == 3      \* largest configured DANSWER_BOT_NUM_RETRIES
MaxDocs   == 2      \* longest top_ranked_docs list
MaxPieces == 4      \* longest mention text, in pieces (token, space, word)

\* ------------------------------------------------------------- constants
RetryDelay   == 1   \* delay=0.25, in units of 0.25 s
RetryBackoff == 2   \* backoff=2

\* --------------------------------------------------------------- strings
BotUserId == <<"B">>                        \* auth_test()["user_id"]
Word      == <<"w">>
Question  == <<"w", "?">>
Tag       == <<"<", "@">> \o BotUserId \o <<">">>
TagOnly   == Tag \o <<" ">>
TagWord   == Tag \o <<" ">> \o Word
TagQuestion == Tag \o <<" ">> \o Question

Texts == {<<>>, Word, Question, TagOnly, TagWord, TagQuestion}
SlashTexts == {<<>>, Word, Question}

\* `sub in s` for Python strings
Contains(sub, s) ==
    \E i \in 0..(Len(s) - Len(sub)) : SubSeq(s, i + 1, i + Len(sub)) = sub

IsSpace(c) == c = " "

\* ------------------------------------------------------ inbound requests
\* payload["event"] of an events_api request (spec section 6: message, mention)
Events ==
    [text : Texts, channel : {None, "C1"},
     type : {"message", "app_mention", "reaction_added"},
     bot_profile : BOOLEAN, subtype : {None, "file_share", "channel_join"},
     ts : {"t1"}, thread_ts : {None, "t1", "t0"}, user : {"U1"}]

SlashPayloads ==
    [channel_id : {None, "C1"}, text : SlashTexts, user_id : {None, "U1"}]

\* payload of an interactive request; a missing key is None / an empty list
InteractivePayloads ==
    [type : {"block_actions", "view_submission"},
     actions : {<<>>, <<[action_id |-> "feedback-like", block_id |-> "q1"]>>,
                <<[action_id |-> "feedback-like", block_id |-> "malformed"]>>},
     has_user : BOOLEAN, has_container : BOOLEAN]

Payloads(type) ==
    CASE type = "events_api"     -> {[event |-> e] : e \in Events}
      [] type = "slash_commands" -> SlashPayloads
      [] type = "interactive"    -> InteractivePayloads
      [] OTHER                   -> {[type |-> "hello"]}

RequestTypes == {"events_api", "slash_commands", "interactive", "disconnect"}

NoReq == [type |-> None, envelope_id |-> 0, payload |-> [type |-> None]]

\* ---------------------------------------------------- prefilter_requests
\* line 82 is reached: the checks of lines 65-79 passed and the event is a
\* plain message
PrefilterCallsAuthTest(r) ==
    /\ r.type = "events_api"
    /\ LET event == r.payload.event IN
        /\ event.channel # None
        /\ event.text # <<>>
        /\ event.type \in {"app_mention", "message"}
        /\ event.type = "message"

\* the chain without the bot_profile check of line 87
EventsApiKeepBots(event, bot_tag_id) ==
    IF event.channel = None THEN FALSE
    ELSE IF event.text = <<>> THEN FALSE
    ELSE IF event.type \notin {"app_mention", "message"} THEN FALSE
    ELSE IF event.type = "message" /\ bot_tag_id # <<>>
            /\ Contains(bot_tag_id, event.text) THEN FALSE
    ELSE IF event.subtype \notin {None, "file_share"} THEN FALSE
    ELSE IF event.thread_ts # None /\ event.ts # event.thread_ts THEN FALSE
    ELSE TRUE

\* the chain without the thread-root check of line 104
EventsApiKeepReplies(event, bot_tag_id) ==
    IF event.channel = None THEN FALSE
    ELSE IF event.text = <<>> THEN FALSE
    ELSE IF event.type \notin {"app_mention", "message"} THEN FALSE
    ELSE IF event.type = "message" /\ bot_tag_id # <<>>
            /\ Contains(bot_tag_id, event.text) THEN FALSE
    ELSE IF event.bot_profile THEN FALSE
    ELSE IF event.subtype \notin {None, "file_share"} THEN FALSE
    ELSE TRUE

\* the chain without the own-mention check of lines 81-85
EventsApiKeepTagged(event, bot_tag_id) ==
    IF event.channel = None THEN FALSE
    ELSE IF event.text = <<>> THEN FALSE
    ELSE IF event.type \notin {"app_mention", "message"} THEN FALSE
    ELSE IF event.bot_profile THEN FALSE
    ELSE IF event.subtype \notin {None, "file_share"} THEN FALSE
    ELSE IF event.thread_ts # None /\ event.ts # event.thread_ts THEN FALSE
    ELSE TRUE

\* True to keep going, False to ignore this Slack request; bot_tag_id is what
\* auth_test().get("user_id") returned (read only when line 82 is reached)
EventsApiKeep(event, bot_tag_id) ==
    IF event.channel = None THEN FALSE
    ELSE IF event.text = <<>> THEN FALSE
    ELSE IF event.type \notin {"app_mention", "message"} THEN FALSE
    ELSE IF event.type = "message" /\ bot_tag_id # <<>>
            /\ Contains(bot_tag_id, event.text) THEN FALSE
    ELSE IF event.bot_profile THEN FALSE
    ELSE IF event.subtype \notin {None, "file_share"} THEN FALSE
    ELSE IF event.thread_ts # None /\ event.ts # event.thread_ts THEN FALSE
    ELSE IF event.text = <<>> THEN FALSE
    ELSE TRUE

SlashCommandKeep(payload) ==
    IF payload.channel_id = None THEN FALSE
    ELSE IF payload.user_id = None THEN FALSE
    ELSE TRUE

prefilter_requests(r, bot_tag_id) ==
    IF r.type = "events_api" THEN EventsApiKeep(r.payload.event, bot_tag_id)
    ELSE IF r.type = "slash_commands" THEN SlashCommandKeep(r.payload)
    ELSE TRUE

\* ------------------------------------------------- build_request_details
\* re.sub(rf"<@{bot_tag_id}>\s", "", msg): every leftmost non-overlapping
\* match is removed, scanning left to right
RECURSIVE ReSubMention(_, _)
ReSubMention(bot_tag_id, msg) ==
    LET pat == <<"<", "@">> \o bot_tag_id \o <<">">>
        n   == Len(pat)
    IN  IF msg = <<>> THEN <<>>
        ELSE IF Len(msg) >= n + 1 /\ SubSeq(msg, 1, n) = pat /\ IsSpace(msg[n + 1])
             THEN ReSubMention(bot_tag_id, SubSeq(msg, n + 2, Len(msg)))
             ELSE <<Head(msg)>> \o ReSubMention(bot_tag_id, Tail(msg))

NoDetails ==
    [msg_content |-> <<>>, channel_to_respond |-> None, msg_to_respond |-> None,
     sender |-> None, bipass_filters |-> FALSE, is_bot_msg |-> FALSE]

BuildCallsAuthTest(r) ==
    r.type = "events_api" /\ r.payload.event.type = "app_mention"

\* a builder that lets no message or mention bypass the channel filters
BuildRequestDetailsNeverBypass(r, bot_tag_id) ==
    IF r.type = "events_api" THEN
        LET event  == r.payload.event
            tagged == event.type = "app_mention"
        IN  [msg_content |-> IF tagged THEN ReSubMention(bot_tag_id, event.text)
                             ELSE event.text,
             channel_to_respond |-> event.channel,
             msg_to_respond |-> IF event.thread_ts # None THEN event.thread_ts
                                ELSE event.ts,
             sender |-> event.user,
             bipass_filters |-> FALSE,
             is_bot_msg |-> FALSE]
    ELSE
        [msg_content |-> r.payload.text,
         channel_to_respond |-> r.payload.channel_id,
         msg_to_respond |-> None,
         sender |-> r.payload.user_id,
         bipass_filters |-> TRUE,
         is_bot_msg |-> TRUE]

\* lines 163-201
build_request_details(r, bot_tag_id) ==
    IF r.type = "events_api" THEN
        LET event  == r.payload.event
            tagged == event.type = "app_mention"
        IN  [msg_content |-> IF tagged THEN ReSubMention(bot_tag_id, event.text)
                             ELSE event.text,
             channel_to_respond |-> event.channel,
             msg_to_respond |-> IF event.thread_ts # None THEN event.thread_ts
                                ELSE event.ts,
             sender |-> event.user,
             bipass_filters |-> tagged,
             is_bot_msg |-> FALSE]
    ELSE
        [msg_content |-> r.payload.text,
         channel_to_respond |-> r.payload.channel_id,
         msg_to_respond |-> None,
         sender |-> r.payload.user_id,
         bipass_filters |-> TRUE,
         is_bot_msg |-> TRUE]

\* ------------------------------------------------ channel configuration
Filters == {"questionmark_prefilter", "well_answered_postfilter"}

\* SlackBotConfig | None.  is_none: the lookup returned None; conf_empty:
\* channel_config.channel_config is an empty dict; has_answer_filters: the
\* key "answer_filters" is in channel_conf
NoConfig ==
    [is_none |-> TRUE, document_sets |-> <<>>, conf_empty |-> TRUE,
     has_answer_filters |-> FALSE, answer_filters |-> {},
     respond_tag_only |-> FALSE, respond_team_member_list |-> <<>>]

EmptyConfig == [NoConfig EXCEPT !.is_none = FALSE]

SlackBotConfigs ==
    {NoConfig, EmptyConfig} \cup
    {[is_none |-> FALSE, document_sets |-> <<"ds1">>, conf_empty |-> FALSE,
      has_answer_filters |-> TRUE, answer_filters |-> af,
      respond_tag_only |-> t, respond_team_member_list |-> tl] :
        af \in SUBSET Filters, t \in BOOLEAN, tl \in {<<>>, <<"a@x.com">>}} \cup
    {[is_none |-> FALSE, document_sets |-> <<"ds1">>, conf_empty |-> FALSE,
      has_answer_filters |-> FALSE, answer_filters |-> {},
      respond_tag_only |-> t, respond_team_member_list |-> tl] :
        t \in BOOLEAN, tl \in {<<>>, <<"a@x.com">>}}

\* ----------------------------------------------------- engine responses
\* top_ranked_docs: none, or MaxDocs documents whose ids are not in
\* ascending order
DocLists == {<<>>, [i \in 1..MaxDocs |-> MaxDocs + 1 - i]}

NoAnswer ==
    [error_msg |-> None, eval_res_valid |-> None, answer |-> None,
     top_ranked_docs |-> <<>>, query_event_id |-> 0]

\* QAResponse without error_msg
QAResponses ==
    [error_msg : {None}, eval_res_valid : {"True", "False", None},
     answer : {None, "A1"}, top_ranked_docs : DocLists, query_event_id : {1}]

\* --------------------------------------------------------- exceptions
\* type: the exception class (SlackApiError, or another subclass of
\* Exception); origin: the function that raised; text: str(e)
NoExc == [type |-> None, origin |-> None, text |-> None]
Raise(type, origin) == [type |-> type, origin |-> origin, text |-> None]

\* ------------------------------------------------- entries of the trace
DANSWER_REACT_EMOJI == "DANSWER_REACT_EMOJI"

Ack(envelope_id) ==
    [op |-> "send_socket_mode_response", envelope_id |-> envelope_id]
AuthTest == [op |-> "auth_test"]
ChannelInfo(channel) == [op |-> "get_channel_name_from_id", channel |-> channel]
ConfigLookup == [op |-> "get_slack_bot_config_for_channel"]
ReactionsAdd(d) ==
    [op |-> "reactions_add", name |-> DANSWER_REACT_EMOJI,
     channel |-> d.channel_to_respond, timestamp |-> d.msg_to_respond]
ReactionsRemove(d) ==
    [op |-> "reactions_remove", name |-> DANSWER_REACT_EMOJI,
     channel |-> d.channel_to_respond, timestamp |-> d.msg_to_respond]
\* respond_in_thread: text is the message (blocks empty) or "None"; detail is
\* the run-time string formatted into the text; receiver_ids <<>> posts to
\* the channel; unfurl defaults to True
RespondInThread(channel, thread_ts, receiver_ids, text, detail, blocks, unfurl) ==
    [op |-> "respond_in_thread", channel |-> channel, thread_ts |-> thread_ts,
     receiver_ids |-> receiver_ids, text |-> text, detail |-> detail,
     blocks |-> blocks, unfurl |-> unfurl]
FetchUserIds(emails) == [op |-> "fetch_userids_from_emails", emails |-> emails]
AnswerQaQuery(query, document_sets, enable_reflexion) ==
    [op |-> "answer_qa_query", query |-> query, document_sets |-> document_sets,
     enable_reflexion |-> enable_reflexion]
Sleep(d) == [op |-> "sleep", seconds |-> d]
HandleSlackFeedback(block_id) ==
    [op |-> "handle_slack_feedback", block_id |-> block_id]

\* ------------------------------------------------------------- initial
\* the listener waits for its first request
ListenerIdle ==
    /\ pc = "idle"
    /\ received = 0
    /\ req = NoReq
    /\ trace = <<>>
    /\ exc = NoExc
    /\ details = NoDetails
    /\ respond_every_channel = FALSE
    /\ slack_bot_config = NoConfig
    /\ num_retries = 0
    /\ should_respond_with_error_msgs = FALSE
    /\ disable_docs_only_answer = FALSE
    /\ reflexion = FALSE
    /\ send_to = <<>>
    /\ respond_team_member_list = <<>>
    /\ tries = 0
    /\ delay = 0
    /\ answer = NoAnswer
    /\ failed = FALSE

\* no LocalFileConnector has been constructed
FileConnectorIdle ==
    /\ file_locations = <<>>
    /\ batch_size = 1
    /\ load_pc = "idle"
    /\ location = 1
    /\ opened = 0
    /\ documents = <<>>
    /\ batches = <<>>

\* _load_documents_from_filesystem has not been called
LangchainIdle ==
    /\ filtered_files = <<>>
    /\ threads = <<>>
    /\ processed = {}
    /\ results = <<>>
    /\ results_lock = 0
    /\ main_pc = "idle"
    /\ main_i = 1
    /\ returned = <<>>

Init == ListenerIdle /\ FileConnectorIdle /\ LangchainIdle

message_vars == <<details, respond_every_channel, slack_bot_config>>
handle_vars  == <<num_retries, should_respond_with_error_msgs,
                  disable_docs_only_answer, reflexion, send_to,
                  respond_team_member_list, tries, delay, answer, failed>>

\* -------------------------------------------------- process_slack_event
\* The transport hands the next request to the listener; the locals of the
\* previous call are gone.
\* a listener that routes the request without acknowledging it first
EntryWithoutAck == "route"

\* line 306: the first statement of process_slack_event
EntryPoint == "ack"

Receive ==
    /\ pc = "idle"
    /\ received < MaxEvents
    /\ \E type \in RequestTypes : \E payload \in Payloads(type) :
          req' = [type |-> type, envelope_id |-> received + 1, payload |-> payload]
    /\ received' = received + 1
    /\ pc' = EntryPoint
    /\ UNCHANGED <<trace, exc, message_vars, handle_vars>>
    /\ UNCHANGED connector_vars

\* process_slack_event has returned: its locals and those of its callees are
\* gone, and the listener waits for the next request
Return ==
    /\ pc = "done"
    /\ pc' = "idle"
    /\ req' = NoReq
    /\ trace' = <<>>
    /\ exc' = NoExc
    /\ details' = NoDetails
    /\ respond_every_channel' = FALSE
    /\ slack_bot_config' = NoConfig
    /\ num_retries' = 0
    /\ should_respond_with_error_msgs' = FALSE
    /\ disable_docs_only_answer' = FALSE
    /\ reflexion' = FALSE
    /\ send_to' = <<>>
    /\ respond_team_member_list' = <<>>
    /\ tries' = 0
    /\ delay' = 0
    /\ answer' = NoAnswer
    /\ failed' = FALSE
    /\ UNCHANGED received
    /\ UNCHANGED connector_vars

\* SocketModeResponse(envelope_id=req.envelope_id)
acknowledge_message(r) == Ack(r.envelope_id)

\* line 306.  A failed send raises outside the try block.
Acknowledge ==
    /\ pc = "ack"
    /\ trace' = Append(trace, acknowledge_message(req))
    /\ \E ok \in BOOLEAN :
          IF ok THEN pc' = "route" /\ exc' = exc
          ELSE pc' = "escaped" /\ exc' = Raise("Exception", "acknowledge_message")
    /\ UNCHANGED <<received, req, message_vars, handle_vars>>
    /\ UNCHANGED connector_vars

\* lines 309-313: which handler the request is routed to
RouteOf(r) ==
    IF r.type = "interactive" /\ r.payload.type = "block_actions"
    THEN "feedback"
    ELSE IF r.type = "events_api" \/ r.type = "slash_commands"
    THEN "prefilter"
    ELSE "done"

Route ==
    /\ pc = "route"
    /\ pc' = RouteOf(req)
    /\ UNCHANGED <<received, req, trace, exc, message_vars, handle_vars>>
    /\ UNCHANGED connector_vars

\* an except clause that names SlackApiError only
CatchesSlackApiErrorOnly(e) == e.type = "SlackApiError"

\* a dispatcher without the except clause
CatchesNothing(e) == FALSE

\* `except Exception` of line 314
Catches(e) == e.type \in {"SlackApiError", "Exception"}

\* lines 314-315: the exception reaches the except clause and is logged
Catch ==
    /\ pc = "except"
    /\ pc' = IF Catches(exc) THEN "done" ELSE "escaped"
    /\ UNCHANGED <<received, req, trace, exc, message_vars, handle_vars>>
    /\ UNCHANGED connector_vars

\* ----------------------------------------------------- process_feedback
\* decompose_block_id succeeds on a well-formed compound identifier
BlockIdDecodes(block_id) == block_id # "malformed"

\* lines 137-160.  handle_slack_feedback decodes the block id, stores the
\* feedback and posts the confirmation to the acting user.
ProcessFeedback ==
    /\ pc = "feedback"
    /\ LET p == req.payload IN
        IF p.actions = <<>> THEN
            /\ pc' = "done"
            /\ UNCHANGED <<trace, exc>>
        ELSE IF ~p.has_user \/ ~p.has_container THEN
            /\ pc' = "except"
            /\ exc' = Raise("Exception", "process_feedback")
            /\ UNCHANGED trace
        ELSE IF ~BlockIdDecodes(p.actions[1].block_id) THEN
            /\ pc' = "except"
            /\ exc' = Raise("Exception", "handle_slack_feedback")
            /\ trace' = Append(trace, HandleSlackFeedback(p.actions[1].block_id))
        ELSE \E ok \in BOOLEAN :
            /\ trace' = trace \o
                 <<HandleSlackFeedback(p.actions[1].block_id),
                   RespondInThread("C1", "t1", <<"U1">>, "feedback_confirmation",
                                   None, <<>>, TRUE)>>
            /\ IF ok THEN pc' = "done" /\ exc' = exc
               ELSE pc' = "except" /\ exc' = Raise("Exception", "handle_slack_feedback")
    /\ UNCHANGED <<received, req, message_vars, handle_vars>>
    /\ UNCHANGED connector_vars

\* ------------------------------------------------------ process_message
\* A Slack Web API call returns, raises SlackApiError, or raises another
\* exception (respond_in_thread raises RuntimeError on a response that is
\* not ok)
ApiOutcomes == {"ok", "SlackApiError", "Exception"}

\* lines 252-256
Prefilter ==
    /\ pc = "prefilter"
    /\ IF PrefilterCallsAuthTest(req) THEN
          \E ok \in BOOLEAN :
            /\ trace' = Append(trace, AuthTest)
            /\ IF ~ok THEN
                  pc' = "except" /\ exc' = Raise("SlackApiError", "prefilter_requests")
               ELSE
                  /\ pc' = IF prefilter_requests(req, BotUserId) THEN "build" ELSE "done"
                  /\ exc' = exc
       ELSE
          /\ pc' = IF prefilter_requests(req, <<>>) THEN "build" ELSE "done"
          /\ UNCHANGED <<trace, exc>>
    /\ UNCHANGED <<received, req, message_vars, handle_vars>>
    /\ UNCHANGED connector_vars

\* line 258.  req is not read after this line.
BuildRequestDetails ==
    /\ pc = "build"
    /\ IF BuildCallsAuthTest(req) THEN
          \E ok \in BOOLEAN :
            /\ trace' = Append(trace, AuthTest)
            /\ IF ~ok THEN
                  /\ pc' = "except"
                  /\ exc' = Raise("SlackApiError", "build_request_details")
                  /\ UNCHANGED <<details, req>>
               ELSE
                  /\ pc' = "lookup"
                  /\ details' = build_request_details(req, BotUserId)
                  /\ req' = NoReq
                  /\ exc' = exc
       ELSE
          /\ pc' = "lookup"
          /\ details' = build_request_details(req, <<>>)
          /\ req' = NoReq
          /\ UNCHANGED <<trace, exc>>
    /\ UNCHANGED <<received, respond_every_channel, slack_bot_config, handle_vars>>
    /\ UNCHANGED connector_vars

\* the respond-every-channel flag read the wrong way round
NotConfiguredInverted(config, every_channel) == config.is_none /\ every_channel

\* line 271: the channel is not served
NotConfigured(config, every_channel) == config.is_none /\ ~every_channel

\* lines 259-275.  respond_every_channel is read only when the lookup
\* returned None (`and` short-circuits); its value is drawn at that read.
ChannelConfigLookup ==
    /\ pc = "lookup"
    /\ \/ /\ trace' = Append(trace, ChannelInfo(details.channel_to_respond))
          /\ pc' = "except"
          /\ exc' = Raise("SlackApiError", "get_channel_name_from_id")
          /\ UNCHANGED <<slack_bot_config, respond_every_channel>>
       \/ /\ trace' = trace \o
                <<ChannelInfo(details.channel_to_respond), ConfigLookup>>
          /\ exc' = exc
          /\ \E config \in SlackBotConfigs :
                /\ slack_bot_config' = config
                /\ IF config.is_none THEN
                      \E every_channel \in BOOLEAN :
                        /\ respond_every_channel' = every_channel
                        /\ pc' = IF NotConfigured(config, every_channel)
                                 THEN "done" ELSE "announce"
                   ELSE
                      /\ pc' = "announce"
                      /\ UNCHANGED respond_every_channel
    /\ UNCHANGED <<received, req, details, handle_vars>>
    /\ UNCHANGED connector_vars

\* an announce that adds the reaction for a slash command too
AckToUserCallReactsAlways(d) == ReactionsAdd(d)

\* send_msg_ack_to_user, lines 204-220: the call it makes
AckToUserCall(d) ==
    IF d.is_bot_msg /\ d.sender # None
    THEN RespondInThread(d.channel_to_respond, d.msg_to_respond, <<d.sender>>,
                         "evaluating_your_query", None, <<>>, TRUE)
    ELSE ReactionsAdd(d)

\* the same call made outside any try block: every raise propagates
AfterUnguardedCall(outcome, next, handler) ==
    IF outcome = "ok" THEN next ELSE "except"

\* where a call made inside `try: ... except SlackApiError` continues
AfterGuardedCall(outcome, next, handler) ==
    CASE outcome = "ok"            -> next
      [] outcome = "SlackApiError" -> handler
      [] OTHER                     -> "except"

\* lines 277-279: only SlackApiError is caught here
SendMsgAck ==
    /\ pc = "announce"
    /\ trace' = Append(trace, AckToUserCall(details))
    /\ \E outcome \in ApiOutcomes :
          /\ pc' = AfterGuardedCall(outcome, "handle", "announce_failed")
          /\ exc' = IF outcome = "ok" THEN exc
                    ELSE Raise(outcome, "send_msg_ack_to_user")
    /\ UNCHANGED <<received, req, message_vars, handle_vars>>
    /\ UNCHANGED connector_vars

\* line 280: the SlackApiError is logged and the pipeline goes on
AnnounceFailed ==
    /\ pc = "announce_failed"
    /\ pc' = "handle"
    /\ exc' = NoExc
    /\ UNCHANGED <<received, req, trace, message_vars, handle_vars>>
    /\ UNCHANGED connector_vars

\* the test of line 289 inverted
ShouldApologizeInverted(f) == ~f

\* line 289
ShouldApologize(f) == f

\* apologize_for_fail, lines 235-244
ApologyCall(d) ==
    RespondInThread(d.channel_to_respond, d.msg_to_respond, <<>>,
                    "sorry_nothing_relevant", None, <<>>, TRUE)

\* lines 288-290
Apologize ==
    /\ pc = "returned"
    /\ IF ShouldApologize(failed) THEN
          \E ok \in BOOLEAN :
            /\ trace' = Append(trace, ApologyCall(details))
            /\ IF ok THEN pc' = "clear" /\ exc' = exc
               ELSE pc' = "except" /\ exc' = Raise("Exception", "apologize_for_fail")
       ELSE
          /\ pc' = "clear"
          /\ UNCHANGED <<trace, exc>>
    /\ UNCHANGED <<received, req, message_vars, handle_vars>>
    /\ UNCHANGED connector_vars

\* lines 292-295 with remove_react, lines 223-232
RemoveReact ==
    /\ pc = "clear"
    /\ IF details.is_bot_msg THEN
          /\ pc' = "done"
          /\ UNCHANGED <<trace, exc>>
       ELSE
          /\ trace' = Append(trace, ReactionsRemove(details))
          /\ \E outcome \in ApiOutcomes :
                /\ pc' = AfterGuardedCall(outcome, "done", "clear_failed")
                /\ exc' = IF outcome = "ok" THEN exc
                          ELSE Raise(outcome, "remove_react")
    /\ UNCHANGED <<received, req, message_vars, handle_vars>>
    /\ UNCHANGED connector_vars

\* line 295: the SlackApiError is logged and process_message returns
ClearFailed ==
    /\ pc = "clear_failed"
    /\ pc' = "done"
    /\ exc' = NoExc
    /\ UNCHANGED <<received, req, trace, message_vars, handle_vars>>
    /\ UNCHANGED connector_vars

\* ------------------------------------------------------- handle_message
\* line 73: `channel_config and channel_config.channel_config`
HasChannelConf(config) == ~config.is_none /\ ~config.conf_empty

\* line 75
ReadsAnswerFilters(d, config) ==
    HasChannelConf(config) /\ ~d.bipass_filters /\ config.has_answer_filters

\* lines 67-76; enable_reflexion is the ENABLE_DANSWERBOT_REFLEXION setting
Reflexion(d, config, enable_reflexion) ==
    IF ReadsAnswerFilters(d, config)
    THEN "well_answered_postfilter" \in config.answer_filters
    ELSE enable_reflexion

\* the question-mark test inverted: skips the texts that hold a '?'
QuestionMarkSkipsInverted(d, config) ==
    /\ HasChannelConf(config) /\ ~d.bipass_filters /\ config.has_answer_filters
    /\ "questionmark_prefilter" \in config.answer_filters
    /\ Contains(<<"?">>, d.msg_content)

\* lines 78-85
QuestionMarkSkips(d, config) ==
    /\ ReadsAnswerFilters(d, config)
    /\ "questionmark_prefilter" \in config.answer_filters
    /\ ~Contains(<<"?">>, d.msg_content)

\* tag-only mode applied to every request, explicit mentions included
TagOnlySkipsMentionsToo(d, config) ==
    HasChannelConf(config) /\ config.respond_tag_only

\* lines 93, 96-101
TagOnlySkips(d, config) ==
    /\ HasChannelConf(config) /\ config.respond_tag_only
    /\ ~d.bipass_filters

\* lines 61-65
DocumentSetNames(config) ==
    IF config.is_none THEN <<>> ELSE config.document_sets

\* lines 49-101.  ENABLE_DANSWERBOT_REFLEXION is read at line 67; its value
\* is drawn at that read.
HandleFilters ==
    /\ pc = "handle"
    /\ \E enable_reflexion \in BOOLEAN :
          reflexion' = Reflexion(details, slack_bot_config, enable_reflexion)
    /\ IF QuestionMarkSkips(details, slack_bot_config) THEN
          /\ failed' = FALSE
          /\ pc' = "returned"
          /\ UNCHANGED respond_team_member_list
       ELSE
          /\ respond_team_member_list' =
                IF HasChannelConf(slack_bot_config)
                THEN slack_bot_config.respond_team_member_list ELSE <<>>
          /\ IF TagOnlySkips(details, slack_bot_config)
             THEN failed' = FALSE /\ pc' = "returned"
             ELSE failed' = failed /\ pc' = "team"
    /\ UNCHANGED <<received, req, trace, exc, message_vars, num_retries,
                   should_respond_with_error_msgs, disable_docs_only_answer,
                   send_to, tries, delay, answer>>
    /\ UNCHANGED connector_vars

\* the user ids fetch_userids_from_emails resolves the emails to
UserIds(emails) == [i \in 1..Len(emails) |-> "T1"]

\* the clarifying note posted to the channel instead of the sender
SlashNotEnabledToChannel(d) ==
    RespondInThread(d.channel_to_respond, None, <<>>,
                    "slash_command_not_enabled", None, <<>>, TRUE)

\* lines 108-116: the clarifying note to the sender of a slash command
SlashNotEnabledCall(d) ==
    RespondInThread(d.channel_to_respond, None, <<d.sender>>,
                    "slash_command_not_enabled", None, <<>>, TRUE)

\* lines 103-123.  num_retries is read by the retry decorator at line 119;
\* its value is drawn at that read.
HandleTeam ==
    /\ pc = "team"
    /\ LET team  == respond_team_member_list # <<>>
           note  == team /\ details.is_bot_msg /\ details.sender # None
       IN \E lookup_ok \in (IF team THEN BOOLEAN ELSE {TRUE}) :
          \E note_ok \in (IF note /\ lookup_ok THEN BOOLEAN ELSE {TRUE}) :
            /\ trace' = trace
                 \o (IF team THEN <<FetchUserIds(respond_team_member_list)>>
                     ELSE <<>>)
                 \o (IF note /\ lookup_ok THEN <<SlashNotEnabledCall(details)>>
                     ELSE <<>>)
            /\ IF lookup_ok /\ note_ok THEN
                  /\ send_to' = IF team THEN UserIds(respond_team_member_list) ELSE <<>>
                  /\ \E n \in 1..MaxTries : num_retries' = n /\ tries' = n
                  /\ delay' = RetryDelay
                  /\ pc' = "engine"
                  /\ exc' = exc
               ELSE
                  /\ pc' = "except"
                  /\ exc' = Raise("Exception", "handle_message")
                  /\ UNCHANGED <<send_to, num_retries, tries, delay>>
    /\ UNCHANGED <<received, req, message_vars, should_respond_with_error_msgs,
                   disable_docs_only_answer, reflexion, respond_team_member_list,
                   answer, failed>>
    /\ UNCHANGED connector_vars

\* a backoff that adds instead of multiplying
NextDelayLinear(d) == d + RetryBackoff

\* retry decorator: `_delay *= backoff`
NextDelay(d) == d * RetryBackoff

\* a loop that gives up one attempt early
TriesLeftOneShort(t) == IF t > 1 THEN t - 2 ELSE 0

\* retry decorator: `_tries -= 1`, then `if not _tries: raise`
TriesLeft(t) == t - 1

\* str(e) of a failed attempt: the engine raised, or returned a response
\* with error_msg "E1" that line 139 turns into RuntimeError
AttemptErrors == {"engine_raised", "E1"}

\* a loop that also retries after a returned response whose evaluation
\* is invalid
GetAnswerAttemptRetriesInvalid ==
    /\ pc = "engine"
    /\ tries > 0
    /\ LET call == AnswerQaQuery(details.msg_content,
                                 DocumentSetNames(slack_bot_config), reflexion)
       IN \/ \E a \in QAResponses :
                /\ answer' = a
                /\ trace' = Append(trace, call)
                /\ IF a.eval_res_valid = "False" /\ tries > 1
                   THEN tries' = tries - 1 /\ pc' = pc
                   ELSE tries' = tries /\ pc' = "classify"
                /\ UNCHANGED <<delay, exc>>
          \/ \E e \in AttemptErrors :
                /\ tries' = TriesLeft(tries)
                /\ IF TriesLeft(tries) = 0 THEN
                      /\ trace' = Append(trace, call)
                      /\ exc' = [type |-> "Exception", origin |-> "_get_answer",
                                 text |-> e]
                      /\ pc' = "exhausted"
                      /\ UNCHANGED delay
                   ELSE
                      /\ trace' = trace \o <<call, Sleep(delay)>>
                      /\ delay' = NextDelay(delay)
                      /\ UNCHANGED <<pc, exc>>
                /\ UNCHANGED answer
    /\ UNCHANGED <<received, req, message_vars, num_retries,
                   should_respond_with_error_msgs, disable_docs_only_answer,
                   reflexion, send_to, respond_team_member_list, failed>>
    /\ UNCHANGED connector_vars

\* lines 118-152: one pass of the retry loop around answer_qa_query
GetAnswerAttempt ==
    /\ pc = "engine"
    /\ tries > 0
    /\ LET call == AnswerQaQuery(details.msg_content,
                                 DocumentSetNames(slack_bot_config), reflexion)
       IN \/ \E a \in QAResponses :
                /\ answer' = a
                /\ trace' = Append(trace, call)
                /\ pc' = "classify"
                /\ UNCHANGED <<tries, delay, exc>>
          \/ \E e \in AttemptErrors :
                /\ tries' = TriesLeft(tries)
                /\ IF TriesLeft(tries) = 0 THEN
                      /\ trace' = Append(trace, call)
                      /\ exc' = [type |-> "Exception", origin |-> "_get_answer",
                                 text |-> e]
                      /\ pc' = "exhausted"
                      /\ UNCHANGED delay
                   ELSE
                      /\ trace' = trace \o <<call, Sleep(delay)>>
                      /\ delay' = NextDelay(delay)
                      /\ UNCHANGED <<pc, exc>>
                /\ UNCHANGED answer
    /\ UNCHANGED <<received, req, message_vars, num_retries,
                   should_respond_with_error_msgs, disable_docs_only_answer,
                   reflexion, send_to, respond_team_member_list, failed>>
    /\ UNCHANGED connector_vars

\* lines 161-167 and 183-189: the optional error detail, posted to the channel
ErrorDetailCall(d, text, detail) ==
    RespondInThread(d.channel_to_respond, d.msg_to_respond, <<>>, text, detail,
                    <<>>, TRUE)

\* lines 153-168.  should_respond_with_error_msgs is read at line 160; its
\* value is drawn at that read.
HandleExhausted ==
    /\ pc = "exhausted"
    /\ \E display \in BOOLEAN :
          /\ should_respond_with_error_msgs' = display
          /\ IF display THEN
                \E ok \in BOOLEAN :
                  /\ trace' = Append(trace,
                        ErrorDetailCall(details, "encountered_exception", exc.text))
                  /\ IF ok THEN pc' = "returned" /\ failed' = TRUE /\ exc' = NoExc
                     ELSE /\ pc' = "except"
                          /\ exc' = Raise("Exception", "handle_message")
                          /\ UNCHANGED failed
             ELSE
                /\ pc' = "returned" /\ failed' = TRUE /\ exc' = NoExc
                /\ UNCHANGED trace
    /\ UNCHANGED <<received, req, message_vars, num_retries,
                   disable_docs_only_answer, reflexion, send_to,
                   respond_team_member_list, tries, delay, answer>>
    /\ UNCHANGED connector_vars

\* the checks without the eval_res_valid test of line 170
ClassifyWithoutEval(a, disable_docs_only) ==
    IF a.top_ranked_docs = <<>> THEN "NoDocumentsFound"
    ELSE IF a.answer = None /\ disable_docs_only THEN "DocsOnlyAnswerDisabled"
    ELSE "Succeeded"

\* the checks with the documents test put before the eval_res_valid test
ClassifyDocsFirst(a, disable_docs_only) ==
    IF a.top_ranked_docs = <<>> THEN "NoDocumentsFound"
    ELSE IF a.eval_res_valid = "False" THEN "LowConfidenceDiscarded"
    ELSE IF a.answer = None /\ disable_docs_only THEN "DocsOnlyAnswerDisabled"
    ELSE "Succeeded"

\* lines 170-197: the checks applied to a returned response, in order.
\* disable_docs_only is read only when there is no answer text.
Classify(a, disable_docs_only) ==
    IF a.eval_res_valid = "False" THEN "LowConfidenceDiscarded"
    ELSE IF a.top_ranked_docs = <<>> THEN "NoDocumentsFound"
    ELSE IF a.answer = None /\ disable_docs_only THEN "DocsOnlyAnswerDisabled"
    ELSE "Succeeded"

\* lines 170-197.  should_respond_with_error_msgs (line 182) and
\* disable_docs_only_answer (line 192) are drawn where they are read.
HandleClassify ==
    /\ pc = "classify"
    /\ \E disable \in (IF answer.eval_res_valid # "False"
                          /\ answer.top_ranked_docs # <<>> /\ answer.answer = None
                       THEN BOOLEAN ELSE {disable_docs_only_answer}) :
       LET outcome == Classify(answer, disable) IN
          /\ disable_docs_only_answer' = disable
          /\ IF outcome = "Succeeded" THEN
                /\ pc' = "render"
                /\ UNCHANGED <<trace, exc, failed, should_respond_with_error_msgs>>
             ELSE IF outcome = "NoDocumentsFound" THEN
                \E display \in BOOLEAN :
                  /\ should_respond_with_error_msgs' = display
                  /\ IF display THEN
                        \E ok \in BOOLEAN :
                          /\ trace' = Append(trace,
                                ErrorDetailCall(details, "found_no_documents", None))
                          /\ IF ok THEN pc' = "returned" /\ failed' = TRUE /\ exc' = exc
                             ELSE /\ pc' = "except"
                                  /\ exc' = Raise("Exception", "handle_message")
                                  /\ UNCHANGED failed
                     ELSE
                        /\ pc' = "returned" /\ failed' = TRUE
                        /\ UNCHANGED <<trace, exc>>
             ELSE
                /\ pc' = "returned" /\ failed' = TRUE
                /\ UNCHANGED <<trace, exc, should_respond_with_error_msgs>>
    /\ UNCHANGED <<received, req, message_vars, num_retries, reflexion, send_to,
                   respond_team_member_list, tries, delay, answer>>
    /\ UNCHANGED connector_vars

\* blocks.py: the restated question, shown only for a slash command
get_restate_blocks(msg, is_bot_msg) ==
    IF is_bot_msg THEN <<[type |-> "restate", body |-> msg]>> ELSE <<>>

\* blocks.py: the answer block
build_qa_response_blocks(a) == <<[type |-> "answer", body |-> a.answer]>>

\* blocks.py: one block per ranked document, in rank order
build_documents_blocks(docs) ==
    [i \in 1..Len(docs) |-> [type |-> "document", body |-> docs[i]]]

\* the primary reply posted with the default unfurl=True
BlockReplyCallUnfurled(d, a, receivers) ==
    RespondInThread(d.channel_to_respond, d.msg_to_respond, receivers, None, None,
                    get_restate_blocks(d.msg_content, d.is_bot_msg)
                      \o build_qa_response_blocks(a)
                      \o build_documents_blocks(a.top_ranked_docs),
                    TRUE)

\* the primary reply with the documents put before the answer
BlockReplyCallDocsFirst(d, a, receivers) ==
    RespondInThread(d.channel_to_respond, d.msg_to_respond, receivers, None, None,
                    get_restate_blocks(d.msg_content, d.is_bot_msg)
                      \o build_documents_blocks(a.top_ranked_docs)
                      \o build_qa_response_blocks(a),
                    FALSE)

\* lines 202-223: the primary reply
BlockReplyCall(d, a, receivers) ==
    RespondInThread(d.channel_to_respond, d.msg_to_respond, receivers, None, None,
                    get_restate_blocks(d.msg_content, d.is_bot_msg)
                      \o build_qa_response_blocks(a)
                      \o build_documents_blocks(a.top_ranked_docs),
                    FALSE)

\* the notice sent to the asking user only instead of the thread
TeamNoticeToSender(d) ==
    RespondInThread(d.channel_to_respond, d.msg_to_respond, <<d.sender>>,
                    "forwarded_to_the_team", None, <<>>, TRUE)

\* lines 227-236: the notice that makes the forwarded answer visible
TeamNoticeCall(d) ==
    RespondInThread(d.channel_to_respond, d.msg_to_respond, <<>>,
                    "forwarded_to_the_team", None, <<>>, TRUE)

\* lines 199-244
HandleRender ==
    /\ pc = "render"
    /\ \E reply_ok \in BOOLEAN :
       \E notice_ok \in (IF reply_ok /\ respond_team_member_list # <<>>
                         THEN BOOLEAN ELSE {TRUE}) :
          /\ trace' = trace
               \o <<BlockReplyCall(details, answer, send_to)>>
               \o (IF reply_ok /\ respond_team_member_list # <<>>
                   THEN <<TeamNoticeCall(details)>> ELSE <<>>)
          /\ failed' = ~(reply_ok /\ notice_ok)
    /\ pc' = "returned"
    /\ UNCHANGED <<received, req, exc, message_vars, num_retries,
                   should_respond_with_error_msgs, disable_docs_only_answer,
                   reflexion, send_to, respond_team_member_list, tries, delay,
                   answer>>
    /\ UNCHANGED connector_vars

\* ------------------------------------------------------- specification
Next ==
    \/ Receive
    \/ Acknowledge
    \/ Route
    \/ ProcessFeedback
    \/ Prefilter
    \/ BuildRequestDetails
    \/ ChannelConfigLookup
    \/ SendMsgAck
    \/ AnnounceFailed
    \/ HandleFilters
    \/ HandleTeam
    \/ GetAnswerAttempt
    \/ HandleExhausted
    \/ HandleClassify
    \/ HandleRender
    \/ Apologize
    \/ RemoveReact
    \/ ClearFailed
    \/ Catch
    \/ Return

Spec == Init /\ [][Next]_vars

\* ------------------------------------ build_request_details on mentions
\* The text of an app_mention event is made of mention tokens, whitespace
\* and words in any arrangement (Slack escapes a typed '<' as &lt;, so the
\* token only appears whole); the bot's own token is somewhere in it.
Pieces == {Tag, <<" ">>, Word}

RECURSIVE Flatten(_)
Flatten(ps) == IF ps = <<>> THEN <<>> ELSE Head(ps) \o Flatten(Tail(ps))

MentionTexts ==
    {t \in {Flatten(ps) : ps \in UNION {[1..n -> Pieces] : n \in 1..MaxPieces}} :
        Contains(Tag, t)}

\* a mention that was acknowledged and kept by prefilter_requests
MentionRequests ==
    {[type |-> "events_api", envelope_id |-> 1,
      payload |-> [event |-> [text |-> t, channel |-> "C1", type |-> "app_mention",
                              bot_profile |-> FALSE, subtype |-> None,
                              ts |-> "t1", thread_ts |-> None, user |-> "U1"]]] :
        t \in MentionTexts}

\* process_message is at line 258 with such a mention
StripInit ==
    /\ pc = "build"
    /\ received = 1
    /\ req \in MentionRequests
    /\ trace = <<Ack(1)>>
    /\ exc = NoExc
    /\ details = NoDetails
    /\ respond_every_channel = FALSE
    /\ slack_bot_config = NoConfig
    /\ num_retries = 0
    /\ should_respond_with_error_msgs = FALSE
    /\ disable_docs_only_answer = FALSE
    /\ reflexion = FALSE
    /\ send_to = <<>>
    /\ respond_team_member_list = <<>>
    /\ tries = 0
    /\ delay = 0
    /\ answer = NoAnswer
    /\ failed = FALSE
    /\ FileConnectorIdle
    /\ LangchainIdle

StripSpec == StripInit /\ [][BuildRequestDetails]_vars

\* ------------------------------------------------- LocalFileConnector
MaxLocations == 2   \* most entries of file_locations
MaxMembers   == 2   \* most files inside one zip archive
MaxBatchSize == 2   \* largest batch_size

\* A file location: its extension and, for each file that opening it gives
\* (the members of a zip archive, the file itself otherwise), whether
\* check_file_ext_is_valid accepts that file's extension.
FileLocations ==
    {[ext |-> ".zip", members |-> m] :
        m \in UNION {[1..n -> BOOLEAN] : n \in 0..MaxMembers}}
    \cup {[ext |-> e, members |-> <<v>>] : e \in {".txt", ".pdf"}, v \in BOOLEAN}
    \cup {[ext |-> ".md", members |-> <<FALSE>>]}

\* lines 25-40: the (file_name, file) pairs the generator yields for the
\* i-th location; file names are told apart by location and member
_open_files_at_location(loc, i) ==
    IF loc.ext = ".zip" THEN
        [k \in 1..Len(loc.members) |->
            [file_name |-> <<i, k>>, valid |-> loc.members[k]]]
    ELSE IF loc.ext = ".txt" \/ loc.ext = ".pdf" THEN
        <<[file_name |-> <<i, 0>>, valid |-> loc.members[1]]>>
    ELSE <<>>

\* lines 43-68: no document for an extension that is not valid, else one
_process_file(file) ==
    IF ~file.valid THEN <<>> ELSE <<[id |-> file.file_name]>>

\* a loop that yields after every file
YieldsBatchAlways(docs, size) == TRUE

\* line 91
YieldsBatch(docs, size) == Len(docs) >= size

\* load_from_state is called on a connector built from any list of
\* locations and any batch_size >= 1
FileInit ==
    /\ ListenerIdle
    /\ LangchainIdle
    /\ file_locations \in UNION {[1..n -> FileLocations] : n \in 0..MaxLocations}
    /\ batch_size \in 1..MaxBatchSize
    /\ load_pc = "files"
    /\ location = 1
    /\ opened = 0
    /\ documents = <<>>
    /\ batches = <<>>

listener_vars == <<pc, received, req, trace, exc, message_vars, handle_vars>>

\* lines 88-93: one pass of the inner loop
LoadFile ==
    /\ load_pc = "files"
    /\ location <= Len(file_locations)
    /\ LET files == _open_files_at_location(file_locations[location], location)
       IN /\ opened < Len(files)
          /\ opened' = opened + 1
          /\ LET extended == documents \o _process_file(files[opened + 1])
             IN IF YieldsBatch(extended, batch_size)
                THEN batches' = Append(batches, extended) /\ documents' = <<>>
                ELSE documents' = extended /\ UNCHANGED batches
    /\ UNCHANGED <<file_locations, batch_size, load_pc, location>>
    /\ UNCHANGED <<listener_vars, langchain_vars>>

\* line 85: the files of this location are used up, on to the next one
LoadLocation ==
    /\ load_pc = "files"
    /\ location <= Len(file_locations)
    /\ opened = Len(_open_files_at_location(file_locations[location], location))
    /\ location' = location + 1
    /\ opened' = 0
    /\ UNCHANGED <<file_locations, batch_size, load_pc, documents, batches>>
    /\ UNCHANGED <<listener_vars, langchain_vars>>

\* lines 95-96: the rest, if any, is the last batch
LoadRest ==
    /\ load_pc = "files"
    /\ location > Len(file_locations)
    /\ batches' = IF documents # <<>> THEN Append(batches, documents) ELSE batches
    /\ load_pc' = "done"
    /\ UNCHANGED <<file_locations, batch_size, location, opened, documents>>
    /\ UNCHANGED <<listener_vars, langchain_vars>>

FileNext == LoadFile \/ LoadLocation \/ LoadRest

FileSpec == FileInit /\ [][FileNext]_vars

\* ---------------------------------------------- LangchainFileConnector
MaxFiles == 3       \* most files found in the source directory

\* lines 164-176: glob has found the files (each path once: the patterns
\* differ in their extension), results and threads are empty
LangchainInit ==
    /\ ListenerIdle
    /\ FileConnectorIdle
    /\ \E n \in 0..MaxFiles :
          /\ filtered_files = [i \in 1..n |-> i]
          /\ threads = [i \in 1..n |-> "new"]
    /\ processed = {}
    /\ results = <<>>
    /\ results_lock = 0
    /\ main_pc = "start"
    /\ main_i = 1
    /\ returned = <<>>

\* lines 179-184: the calling thread starts one thread per file
StartThread ==
    /\ main_pc = "start"
    /\ IF main_i <= Len(filtered_files) THEN
          /\ threads' = [threads EXCEPT ![filtered_files[main_i]] = "load"]
          /\ main_i' = main_i + 1
          /\ UNCHANGED main_pc
       ELSE
          /\ main_pc' = "join"
          /\ main_i' = 1
          /\ UNCHANGED threads
    /\ UNCHANGED <<filtered_files, processed, results, results_lock, returned>>
    /\ UNCHANGED <<listener_vars, file_vars>>

\* lines 187-192: join(timeout=30) returns when the thread has ended, or
\* after 30 seconds while it still runs
JoinThread ==
    /\ main_pc = "join"
    /\ main_i <= Len(filtered_files)
    /\ \/ threads[filtered_files[main_i]] = "done"
       \/ threads[filtered_files[main_i]] # "done"      \* the join timed out
    /\ main_i' = main_i + 1
    /\ UNCHANGED <<filtered_files, threads, processed, results, results_lock,
                   main_pc, returned>>
    /\ UNCHANGED <<listener_vars, file_vars>>

\* line 196
ReturnResults ==
    /\ main_pc = "join"
    /\ main_i > Len(filtered_files)
    /\ returned' = results
    /\ main_pc' = "returned"
    /\ UNCHANGED <<filtered_files, threads, processed, results, results_lock,
                   main_i>>
    /\ UNCHANGED <<listener_vars, file_vars>>

\* lines 125-139: the loader reads the file, or raises (line 156)
ThreadLoad(f) ==
    /\ threads[f] = "load"
    /\ \E ok \in BOOLEAN :
          threads' = [threads EXCEPT ![f] = IF ok THEN "move" ELSE "done"]
    /\ UNCHANGED <<filtered_files, processed, results, results_lock, main_pc,
                   main_i, returned>>
    /\ UNCHANGED <<listener_vars, file_vars>>

\* lines 141-147: shutil.move, which may raise (line 156)
ThreadMove(f) ==
    /\ threads[f] = "move"
    /\ \E ok \in BOOLEAN :
          /\ threads' = [threads EXCEPT ![f] = IF ok THEN "lock" ELSE "done"]
          /\ processed' = IF ok THEN processed \cup {f} ELSE processed
    /\ UNCHANGED <<filtered_files, results, results_lock, main_pc, main_i,
                   returned>>
    /\ UNCHANGED <<listener_vars, file_vars>>

\* line 149: the lock is taken when it is free
ThreadLock(f) ==
    /\ threads[f] = "lock"
    /\ results_lock = 0
    /\ results_lock' = f
    /\ threads' = [threads EXCEPT ![f] = "append"]
    /\ UNCHANGED <<filtered_files, processed, results, main_pc, main_i, returned>>
    /\ UNCHANGED <<listener_vars, file_vars>>

\* line 150 and the end of the with block; the thread ends after line 152
ThreadAppend(f) ==
    /\ threads[f] = "append"
    /\ results' = Append(results, [id |-> f])
    /\ results_lock' = 0
    /\ threads' = [threads EXCEPT ![f] = "done"]
    /\ UNCHANGED <<filtered_files, processed, main_pc, main_i, returned>>
    /\ UNCHANGED <<listener_vars, file_vars>>

LangchainNext ==
    \/ StartThread
    \/ JoinThread
    \/ ReturnResults
    \/ \E f \in DOMAIN threads : ThreadLoad(f)
    \/ \E f \in DOMAIN threads : ThreadMove(f)
    \/ \E f \in DOMAIN threads : ThreadLock(f)
    \/ \E f \in DOMAIN threads : ThreadAppend(f)

LangchainSpec == LangchainInit /\ [][LangchainNext]_vars

\* ------------------------------------------------- reading the trace
Calls(op) == {i \in DOMAIN trace : trace[i].op = op}
EngineCalls == Cardinality(Calls("answer_qa_query"))
Posts == Calls("respond_in_thread")
PostsWithText(texts) == {i \in Posts : trace[i].text \in texts}
BlockReplies == {i \in Posts : trace[i].blocks # <<>>}

RECURSIVE SleptIn(_)
SleptIn(t) ==
    IF t = <<>> THEN 0
    ELSE (IF Head(t).op = "sleep" THEN Head(t).seconds ELSE 0) + SleptIn(Tail(t))

\* handle_message has returned and process_message goes on after line 286
AfterHandleMessage == pc \in {"returned", "clear", "clear_failed"}

\* ---------------------------------------------------------------- C1
\* C1: for every request, of any type, the first call made for it is the
\* socket acknowledgment carrying its envelope id; no prefilter, lookup,
\* Slack API call, engine call or feedback handling comes before it.
C1_AckFirst ==
    /\ pc \notin {"idle", "ack"} => trace # <<>>
    /\ trace # <<>> =>
          /\ trace[1].op = "send_socket_mode_response"
          /\ trace[1].envelope_id = received
          /\ req # NoReq => trace[1].envelope_id = req.envelope_id
          /\ Calls("send_socket_mode_response") = {1}

\* a second request, acknowledged with its own id, has reached the engine
C1_Witness ==
    /\ received = 2
    /\ Len(trace) > 1
    /\ trace[1] = Ack(2)
    /\ EngineCalls > 0

\* ---------------------------------------------------------------- C2
\* C2: an exception raised in the routed path (process_feedback or
\* process_message and everything they call) always ends in the except
\* clause of process_slack_event, which returns normally, so the listener
\* takes the next request from the same state as the first one; the only
\* exception that leaves process_slack_event is one raised by the
\* acknowledgment itself, before the try block.
C2_ExceptionsSwallowed ==
    [][ /\ pc = "except" => pc' = "done"
        /\ pc' = "escaped" => pc = "ack"
        /\ pc = "done" => (pc' = "idle" /\ trace' = <<>> /\ exc' = NoExc
                           /\ received' = received) ]_vars

\* process_slack_event returned after swallowing an exception raised by the
\* apology post, and the listener can take another request
C2_Witness ==
    /\ pc = "done"
    /\ exc.type = "Exception"
    /\ exc.origin = "apologize_for_fail"
    /\ received < MaxEvents

\* ---------------------------------------------------------------- C3
\* the checks of spec section 4.1 (and the two slash-command checks), each
\* taken alone; BotUserId is the bot's own id
FailsSomeCheck(r) ==
    IF r.type = "events_api" THEN
        LET e == r.payload.event IN
        \/ e.channel = None
        \/ e.text = <<>>
        \/ e.type # "message" /\ e.type # "app_mention"
        \/ e.type = "message" /\ Contains(BotUserId, e.text)
        \/ e.bot_profile
        \/ e.subtype # None /\ e.subtype # "file_share"
        \/ e.thread_ts # None /\ e.thread_ts # e.ts
    ELSE IF r.type = "slash_commands" THEN
        r.payload.channel_id = None \/ r.payload.user_id = None
    ELSE FALSE

\* C3: a request that fails any one prefilter check is never kept: it never
\* reaches build_request_details or anything after it, and the only calls
\* made for it are the acknowledgment and the bot identity lookup (no engine
\* call, no reaction, no message).
C3_RejectedNeverOrchestrated ==
    (req # NoReq /\ FailsSomeCheck(req)) =>
        /\ pc \in {"ack", "route", "prefilter", "except", "done", "escaped"}
        /\ \A i \in DOMAIN trace :
              trace[i].op \in {"send_socket_mode_response", "auth_test"}

\* a message of a bot that passes the four checks before the bot_profile
\* check was rejected after the identity lookup
C3_Witness ==
    /\ pc = "done"
    /\ req.type = "events_api"
    /\ req.payload.event.bot_profile
    /\ req.payload.event.subtype = None
    /\ req.payload.event.thread_ts = None
    /\ trace = <<Ack(received), AuthTest>>

\* ---------------------------------------------------------------- C4
\* the channel filters of the claim, read from the configuration
ChannelDeclines ==
    /\ ~details.bipass_filters
    /\ ~slack_bot_config.is_none
    /\ \/ slack_bot_config.respond_tag_only
       \/ /\ "questionmark_prefilter" \in slack_bot_config.answer_filters
          /\ \A i \in DOMAIN details.msg_content : details.msg_content[i] # "?"

\* C4: when the request does not bypass the filters and the channel is
\* tag-only, or has the question-mark prefilter and the text has no '?',
\* handle_message returns False without reaching the engine stage: no engine
\* call and no message is posted for the event, the apology included.
C4_FilteredIsSkipped ==
    (pc \notin {"idle", "ack", "route", "prefilter", "build", "lookup"}
     /\ ChannelDeclines) =>
        /\ pc \notin {"team", "engine", "exhausted", "classify", "render"}
        /\ EngineCalls = 0
        /\ Posts = {}
        /\ AfterHandleMessage => ~failed

\* a plain message without '?' in a channel with the question-mark
\* prefilter only: handle_message returned and the reaction was removed
C4_Witness ==
    /\ pc = "done"
    /\ ChannelDeclines
    /\ ~slack_bot_config.respond_tag_only
    /\ Calls("reactions_remove") # {}

\* ---------------------------------------------------------------- C5
\* C5: a request that bypasses the filters (mention or slash command) is
\* never skipped, whatever the channel configuration: whenever
\* handle_message returns for it, the engine was invoked at least once.
C5_BypassNeverSkipped ==
    (AfterHandleMessage /\ details.bipass_filters) => EngineCalls >= 1

\* a mention without '?' in a tag-only channel with the question-mark
\* prefilter was answered
C5_Witness ==
    /\ pc = "returned"
    /\ details.bipass_filters
    /\ ~details.is_bot_msg
    /\ slack_bot_config.respond_tag_only
    /\ "questionmark_prefilter" \in slack_bot_config.answer_filters
    /\ details.msg_content = Word
    /\ EngineCalls >= 1

\* ---------------------------------------------------------------- C6
Apologies == PostsWithText({"sorry_nothing_relevant"})
ErrorDetails == PostsWithText({"encountered_exception", "found_no_documents"})

\* handle_message returned True and line 290 has run
ApologyDue == failed /\ (pc \in {"clear", "clear_failed"}
                         \/ (pc = "except" /\ exc.origin = "apologize_for_fail"))

\* C6 as stated: after a Failed outcome exactly one apology/error message
\* has been posted for the event, also when error-detail display is enabled.
C6_OneErrorSurface ==
    ApologyDue => Cardinality(Apologies \cup ErrorDetails) = 1

\* C6 as amended: after a Failed outcome apologize_for_fail has been called
\* exactly once; an error-detail message precedes the apology exactly when
\* error-detail display is enabled and the failure is exhausted retries or
\* no documents found, so that two messages are posted in those cases and
\* one in every other.
C6_OneApologyAfterOptionalDetail ==
    ApologyDue =>
        /\ Cardinality(Apologies) = 1
        /\ Cardinality(ErrorDetails) =
              (IF should_respond_with_error_msgs
                  /\ (tries = 0 \/ (answer.eval_res_valid # "False"
                                    /\ answer.top_ranked_docs = <<>>))
               THEN 1 ELSE 0)
        /\ \A i \in ErrorDetails : \A j \in Apologies : i < j
        /\ Cardinality(Apologies \cup ErrorDetails) \in {1, 2}

\* error-detail display is enabled, the retries are exhausted, and the
\* detail and the apology have both been posted
C6_Witness ==
    /\ pc = "clear"
    /\ failed
    /\ should_respond_with_error_msgs
    /\ tries = 0
    /\ Cardinality(ErrorDetails) = 1
    /\ Cardinality(Apologies) = 1

\* ---------------------------------------------------------------- C7
\* the response in `answer` is one the claim calls Succeeded
SucceededResponse ==
    /\ answer.eval_res_valid # "False"
    /\ answer.top_ranked_docs # <<>>
    /\ (answer.answer # None \/ ~disable_docs_only_answer)

\* C7: once the engine has returned a response that classifies as Succeeded,
\* handle_message makes the block reply call exactly once before it returns,
\* with thread_ts the request's thread anchor and unfurl=False; no block
\* reply is made before the response is classified.
C7_SucceededRendersOnce ==
    /\ (AfterHandleMessage /\ SucceededResponse) =>
          /\ Cardinality(BlockReplies) = 1
          /\ \A i \in BlockReplies :
                /\ trace[i].thread_ts = details.msg_to_respond
                /\ trace[i].channel = details.channel_to_respond
                /\ ~trace[i].unfurl
    /\ pc \in {"handle", "team", "engine", "exhausted", "classify", "render"}
          => BlockReplies = {}

\* a docs-only response (no answer text, docs-only answers allowed) was
\* rendered for a plain message
C7_Witness ==
    /\ pc = "returned"
    /\ ~failed
    /\ SucceededResponse
    /\ answer.answer = None
    /\ ~details.is_bot_msg
    /\ Cardinality(BlockReplies) = 1

\* ---------------------------------------------------------------- C8
\* C8: when the engine call fails on all N = num_retries attempts, the
\* engine has been invoked exactly N times and handle_message returns True;
\* at no point have more than N invocations been made.
C8_ExhaustedAfterExactlyN ==
    num_retries >= 1 =>
        /\ EngineCalls <= num_retries
        /\ tries = 0 => EngineCalls = num_retries
        /\ (tries = 0 /\ AfterHandleMessage) => failed

\* all MaxTries attempts failed and handle_message returned True
C8_Witness ==
    /\ pc = "returned"
    /\ num_retries = MaxTries
    /\ tries = 0
    /\ failed
    /\ EngineCalls = MaxTries

\* ---------------------------------------------------------------- C9
\* base * 2^0 + ... + base * 2^(k-1), in units of 0.25 s (base = RetryDelay)
RECURSIVE BackoffSum(_)
BackoffSum(k) == IF k = 0 THEN 0 ELSE 2 * BackoffSum(k - 1) + RetryDelay

\* the engine returned a response (the retry loop ended with tries left)
ResponseReturned ==
    /\ pc \in {"classify", "render", "returned", "clear", "clear_failed"}
    /\ EngineCalls >= 1
    /\ tries > 0

\* C9: when the engine returns a response on attempt k+1 after k < N failed
\* attempts, it has been invoked exactly k+1 times and is not invoked again,
\* the delays slept add up to the sum of 0.25 * 2^i for i in 0..k-1, one
\* delay follows each failed attempt and none comes before the first attempt
\* or after the last; the response goes on to be rendered only if it
\* classifies as Succeeded.
C9_BackoffSum ==
    ResponseReturned =>
        LET k == EngineCalls - 1 IN
        /\ k < num_retries
        /\ tries = num_retries - k
        /\ Cardinality(Calls("sleep")) = k
        /\ SleptIn(trace) = BackoffSum(k)
        /\ \A i \in Calls("sleep") :
              /\ i > 1 /\ trace[i - 1].op = "answer_qa_query"
              /\ i < Len(trace) /\ trace[i + 1].op = "answer_qa_query"
        /\ pc = "classify" => trace[Len(trace)].op = "answer_qa_query"
        /\ pc = "render" => SucceededResponse

\* two failed attempts, then a response: 0.25 + 0.5 s slept
C9_Witness ==
    /\ pc = "render"
    /\ EngineCalls = 3
    /\ SleptIn(trace) = 3 * RetryDelay

\* --------------------------------------------------------------- C10
\* some message of the trace shows the text `shown`
MessageShows(shown) ==
    \E i \in Posts :
        \/ trace[i].detail = shown
        \/ \E b \in DOMAIN trace[i].blocks :
              /\ trace[i].blocks[b].type = "answer"
              /\ trace[i].blocks[b].body = shown

\* C10: a response with eval_res_valid False is never rendered, whatever its
\* answer text and documents: handle_message returns True, no block reply is
\* made, and no message posted for the event shows the answer text.
C10_InvalidDiscarded ==
    answer.eval_res_valid = "False" =>
        /\ pc # "render"
        /\ BlockReplies = {}
        /\ answer.answer # None => ~MessageShows(answer.answer)
        /\ AfterHandleMessage => failed

\* an invalid response with answer text and documents was discarded and
\* the apology posted
C10_Witness ==
    /\ pc = "clear"
    /\ answer.eval_res_valid = "False"
    /\ answer.answer = "A1"
    /\ answer.top_ranked_docs # <<>>
    /\ Cardinality(Apologies) = 1

\* --------------------------------------------------------------- C11
\* C11: once the working reaction has been added for a passive event, the
\* reaction is removed before process_slack_event is done with the event,
\* whichever way the orchestration ended (Skipped, Failed, Succeeded, or an
\* exception raised by handle_message or by the apology post).
C11_ClearOnEveryExit ==
    (pc = "done" /\ Calls("reactions_add") # {}
     /\ exc.origin \notin {"send_msg_ack_to_user", "remove_react"})
        => Calls("reactions_remove") # {}

\* --------------------------------------------------------------- C12
\* C12: a SlackApiError raised by the announce call is handled at line 279
\* and handle_message starts from the same request, configuration and locals
\* as after a successful announce; a SlackApiError raised by the clear call
\* is handled at line 294 and process_message returns with no exception in
\* flight.
C12_SignalErrorsCaught ==
    [][ /\ (pc = "announce" /\ exc'.type = "SlackApiError")
              => pc' = "announce_failed"
        /\ pc = "announce_failed"
              => /\ pc' = "handle"
                 /\ exc' = NoExc
                 /\ UNCHANGED <<trace, message_vars, handle_vars>>
        /\ (pc = "clear" /\ exc'.type = "SlackApiError")
              => pc' = "clear_failed"
        /\ pc = "clear_failed" => (pc' = "done" /\ exc' = NoExc) ]_vars

\* adding the reaction to a passive event raised SlackApiError and the
\* handler of line 279 is about to go on to handle_message
C12_Witness ==
    /\ pc = "announce_failed"
    /\ exc.type = "SlackApiError"
    /\ exc.origin = "send_msg_ack_to_user"
    /\ ~details.is_bot_msg
    /\ Calls("reactions_add") # {}

\* --------------------------------------------------------------- C13
\* the messages posted by handle_message (not the announce, not the apology)
HandleMessagePosts ==
    {i \in Posts : trace[i].text \notin {"evaluating_your_query",
                                         "sorry_nothing_relevant"}}
TeamNotices == PostsWithText({"forwarded_to_the_team"})
SlashNotes  == PostsWithText({"slash_command_not_enabled"})

\* handle_message returned False after rendering
SucceededReturn == AfterHandleMessage /\ ~failed /\ BlockReplies # {}

\* the block reply goes to the resolved team, the notice follows it at once,
\* to the channel, in the same thread
ReplyThenNotice ==
    /\ Cardinality(BlockReplies) = 1
    /\ Cardinality(TeamNotices) = 1
    /\ \A r \in BlockReplies : \A n \in TeamNotices :
          /\ n = r + 1
          /\ trace[r].receiver_ids = UserIds(respond_team_member_list)
          /\ trace[n].receiver_ids = <<>>
          /\ trace[n].channel = trace[r].channel
          /\ trace[n].thread_ts = trace[r].thread_ts

\* C13 as stated: with a team routing list a Succeeded outcome makes
\* handle_message post exactly two messages, the block reply and then the
\* team notice; without a list it posts the block reply only.
C13_TwoMessagesInOrder ==
    SucceededReturn =>
        IF respond_team_member_list # <<>>
        THEN ReplyThenNotice /\ HandleMessagePosts = BlockReplies \cup TeamNotices
        ELSE Cardinality(BlockReplies) = 1 /\ HandleMessagePosts = BlockReplies

\* C13 as amended: with a team routing list a Succeeded outcome makes
\* handle_message post the block reply and then the team notice; for a
\* message or mention these are its only two messages, for a command
\* invocation the clarifying note to the sender precedes them; without a
\* list it posts the block reply only.
C13_ReplyThenNoticeAfterNote ==
    SucceededReturn =>
        IF respond_team_member_list # <<>>
        THEN /\ ReplyThenNotice
             /\ HandleMessagePosts = BlockReplies \cup TeamNotices \cup SlashNotes
             /\ Cardinality(SlashNotes) = (IF details.is_bot_msg THEN 1 ELSE 0)
             /\ \A q \in SlashNotes : \A r \in BlockReplies : q < r
        ELSE /\ Cardinality(BlockReplies) = 1
             /\ HandleMessagePosts = BlockReplies
             /\ \A r \in BlockReplies : trace[r].receiver_ids = <<>>

\* a plain message in a channel with a team routing list was answered: the
\* reply to the team and the notice are the two messages of handle_message
C13_Witness ==
    /\ pc = "returned"
    /\ ~failed
    /\ ~details.is_bot_msg
    /\ respond_team_member_list = <<"a@x.com">>
    /\ Cardinality(HandleMessagePosts) = 2
    /\ ReplyThenNotice

\* --------------------------------------------------------------- C14
\* C14: the blocks of every block reply are, in this order, the restated
\* question (there exactly when the request is a slash command, and holding
\* the command text), one answer block, and one document block per ranked
\* document in the order the engine returned them.
C14_BlockOrder ==
    \A i \in BlockReplies :
        LET b    == trace[i].blocks
            r    == IF details.is_bot_msg THEN 1 ELSE 0
            docs == answer.top_ranked_docs
        IN  /\ Len(b) = r + 1 + Len(docs)
            /\ r = 1 => b[1] = [type |-> "restate", body |-> details.msg_content]
            /\ b[r + 1].type = "answer"
            /\ \A j \in 1..Len(docs) :
                  b[r + 1 + j] = [type |-> "document", body |-> docs[j]]
            /\ (\E j \in DOMAIN b : b[j].type = "restate") <=> details.is_bot_msg

\* a slash command was answered with the restated question, the answer and
\* MaxDocs documents not in ascending id order
C14_Witness ==
    /\ pc = "returned"
    /\ details.is_bot_msg
    /\ Len(answer.top_ranked_docs) = MaxDocs
    /\ \E i \in BlockReplies :
          /\ Len(trace[i].blocks) = MaxDocs + 2
          /\ trace[i].blocks[1].type = "restate"
          /\ trace[i].blocks[3].body = MaxDocs

\* --------------------------------------------------------------- C15
\* C15: the text build_request_details stores for a mention is a fixed point
\* of the strip: applying re.sub with the same pattern to it again returns
\* it unchanged.
C15_StripIdempotent ==
    [][ (pc = "build" /\ pc' = "lookup" /\ BuildCallsAuthTest(req)) =>
            ReSubMention(BotUserId, details'.msg_content) = details'.msg_content
      ]_vars

\* --------------------------------------------------------------- C16
\* handle_message has been called with `details` and has not returned yet,
\* or has just returned
InHandleMessage ==
    pc \in {"handle", "team", "engine", "exhausted", "classify", "render",
            "returned"}

\* C16: every SlackMessageInfo handed to handle_message has a non-empty
\* text and a channel, and one built from a message or mention event has a
\* thread anchor.
C16_RequestWellFormed ==
    InHandleMessage =>
        /\ details.msg_content # <<>>
        /\ details.channel_to_respond # None
        /\ ~details.is_bot_msg => details.msg_to_respond # None

\* --------------------------------------------------------------- C17
\* the feedback payloads the claim calls malformed or missing
MalformedFeedback(r) ==
    /\ r.type = "interactive"
    /\ r.payload.type = "block_actions"
    /\ \/ r.payload.actions = <<>>
       \/ ~r.payload.has_user
       \/ ~r.payload.has_container
       \/ ~BlockIdDecodes(r.payload.actions[1].block_id)

\* C17: for a block_actions request without actions, without the user or
\* container fields, or with a block id that does not decode, no feedback
\* confirmation is posted, the request never leaves the feedback path, and
\* the only exception that can leave process_slack_event is one raised by
\* the acknowledgment before routing.
C17_MalformedFeedbackDropped ==
    (req # NoReq /\ MalformedFeedback(req)) =>
        /\ PostsWithText({"feedback_confirmation"}) = {}
        /\ Posts = {}
        /\ pc \in {"ack", "route", "feedback", "except", "done", "escaped"}
        /\ pc = "escaped" => exc.origin = "acknowledge_message"

\* a click whose block id does not decode was given to
\* handle_slack_feedback, which raised; the dispatcher logged it and returned
C17_Witness ==
    /\ pc = "done"
    /\ MalformedFeedback(req)
    /\ req.payload.actions # <<>>
    /\ req.payload.has_user /\ req.payload.has_container
    /\ exc.origin = "handle_slack_feedback"
    /\ Calls("handle_slack_feedback") # {}

\* --------------------------------------------------------------- C18
\* the seven checks of the claim, as one conjunction
AllSevenPass(e) ==
    /\ e.channel # None
    /\ e.text # <<>>
    /\ e.type = "message" \/ e.type = "app_mention"
    /\ ~(e.type = "message" /\ Contains(BotUserId, e.text))
    /\ ~e.bot_profile
    /\ e.subtype = None \/ e.subtype = "file_share"
    /\ ~(e.thread_ts # None /\ e.thread_ts # e.ts)

\* C18: the prefilter step of an events_api request keeps the request
\* exactly when all seven checks pass, and calls auth_test exactly when the
\* event is a plain message that passed the channel, text and type checks;
\* it makes no other call, and it ends in the except clause only when that
\* lookup raised.
C18_SevenChecksInOrder ==
    [][ (pc = "prefilter" /\ pc' # "prefilter" /\ req.type = "events_api") =>
            LET e      == req.payload.event
                looked == /\ Len(trace') = Len(trace) + 1
                          /\ trace' = Append(trace, AuthTest)
            IN  /\ looked <=> /\ e.channel # None
                              /\ e.text # <<>>
                              /\ e.type = "message"
                /\ ~looked => trace' = trace
                /\ pc' \in {"build", "done", "except"}
                /\ pc' = "except" => looked
                /\ pc' = "build" => AllSevenPass(e)
                /\ pc' = "done" => ~AllSevenPass(e)
      ]_vars

\* a plain message with a file attached, the root of its thread, was kept
\* after the identity lookup
C18_Witness ==
    /\ pc = "build"
    /\ req.type = "events_api"
    /\ req.payload.event.type = "message"
    /\ req.payload.event.subtype = "file_share"
    /\ req.payload.event.thread_ts = req.payload.event.ts
    /\ trace = <<Ack(received), AuthTest>>

\* --------------------------------------------------------------- C19
\* the plain-message copy of a user message that mentions the bot
TaggedPlainMessage(r) ==
    /\ r.type = "events_api"
    /\ r.payload.event.type = "message"
    /\ Contains(Tag, r.payload.event.text)

\* process_message ran to its end for a mention in a served channel
MentionServed ==
    /\ pc = "done"
    /\ exc = NoExc
    /\ details.bipass_filters /\ ~details.is_bot_msg
    /\ ~NotConfigured(slack_bot_config, respond_every_channel)

\* C19: of the two deliveries of a user message that mentions the bot,
\* whichever comes first, the plain-message copy stops at the prefilter and
\* never becomes a request (no request built from a plain message holds the
\* bot's token), so handle_message is not called for it; the mention copy is
\* announced, and so handed to handle_message, at most once, and exactly
\* once when it was kept, the channel is served and no call raised.
C19_MentionHandledOnce ==
    /\ (req # NoReq /\ TaggedPlainMessage(req)) =>
          /\ pc \in {"ack", "route", "prefilter", "except", "done", "escaped"}
          /\ Calls("reactions_add") = {}
          /\ EngineCalls = 0
    /\ (~details.bipass_filters /\ ~details.is_bot_msg) =>
          ~Contains(Tag, details.msg_content)
    /\ Cardinality(Calls("reactions_add")) <= 1
    /\ InHandleMessage /\ ~details.is_bot_msg =>
          Cardinality(Calls("reactions_add")) = 1
    /\ MentionServed =>
          /\ Cardinality(Calls("reactions_add")) = 1
          /\ Cardinality(Calls("reactions_remove")) = 1

\* the plain-message copy arrived second and was rejected after the identity
\* lookup
C19_Witness ==
    /\ received = 2
    /\ pc = "done"
    /\ TaggedPlainMessage(req)
    /\ req.payload.event.text = TagQuestion
    /\ ~req.payload.event.bot_profile
    /\ req.payload.event.subtype = None
    /\ req.payload.event.thread_ts = None
    /\ trace = <<Ack(2), AuthTest>>

\* --------------------------------------------------------------- C20
\* C20: a returned response is classified by the first test that applies:
\* eval_res_valid False fails it (and the no-documents detail is not
\* posted, whatever the documents); else an empty document list fails it;
\* else a missing answer text with docs-only answers disabled fails it;
\* else it is rendered.  A response goes to rendering only if none of the
\* three applies, so a rendered response has at least one ranked document.
C20_ClassificationPrecedence ==
    /\ pc = "render" =>
          /\ answer.eval_res_valid # "False"
          /\ answer.top_ranked_docs # <<>>
          /\ answer.answer # None \/ ~disable_docs_only_answer
    /\ (ResponseReturned /\ AfterHandleMessage) =>
          IF answer.eval_res_valid = "False" THEN
              /\ failed /\ BlockReplies = {}
              /\ PostsWithText({"found_no_documents"}) = {}
          ELSE IF answer.top_ranked_docs = <<>> THEN
              /\ failed /\ BlockReplies = {}
              /\ Cardinality(PostsWithText({"found_no_documents"}))
                    = (IF should_respond_with_error_msgs THEN 1 ELSE 0)
          ELSE IF answer.answer = None /\ disable_docs_only_answer THEN
              /\ failed /\ BlockReplies = {}
              /\ PostsWithText({"found_no_documents"}) = {}
          ELSE
              /\ Cardinality(BlockReplies) = 1
              /\ answer.top_ranked_docs # <<>> \/ answer.answer # None

\* a response that is both invalid and without documents was discarded by
\* the first test: handle_message returned True and posted nothing
C20_Witness ==
    /\ pc = "returned"
    /\ failed
    /\ answer.eval_res_valid = "False"
    /\ answer.top_ranked_docs = <<>>
    /\ Posts \subseteq PostsWithText({"evaluating_your_query"})

\* --------------------------------------------------------------- C21
\* C21: the engine is invoked again only after an attempt that failed (the
\* engine raised, or returned a response with an error message that line 139
\* turns into an exception): every invocation is made by the retry loop
\* while no response has been returned, every invocation but the first
\* directly follows the backoff sleep of a failed attempt, and an attempt
\* that returns a response, however unhelpful, leaves the loop for the
\* classification; the loop goes round only when no response came back.
C21_RetryOnlyAfterFailure ==
    [][EngineCalls' > EngineCalls =>
          /\ pc = "engine"
          /\ answer = NoAnswer
          /\ EngineCalls > 0 => trace[Len(trace)].op = "sleep"
          /\ answer' # NoAnswer => pc' = "classify" /\ tries' = tries
          /\ pc' = "engine" =>
                /\ answer' = NoAnswer
                /\ tries' = tries - 1
                /\ trace'[Len(trace')].op = "sleep"]_vars

\* with two of three attempts left the engine returned a response that is
\* invalid, without documents and without answer text; it was classified
\* and the pipeline went on without a third invocation
C21_Witness ==
    /\ pc = "clear"
    /\ num_retries = 3
    /\ tries = 2
    /\ EngineCalls = 2
    /\ answer.eval_res_valid = "False"
    /\ answer.top_ranked_docs = <<>>
    /\ answer.answer = None

\* --------------------------------------------------------------- C22
\* C22: build_request_details maps a message or mention event to details
\* with bipass_filters = (the event is an app_mention), is_bot_msg = False
\* and msg_to_respond = thread_ts if present else ts; it maps a slash
\* command to bipass_filters = True, is_bot_msg = True, msg_to_respond None
\* and sender = the payload's user_id, which is present.
C22_RequestMapping ==
    [][(pc = "build" /\ pc' = "lookup") =>
          IF req.type = "events_api" THEN
             LET event == req.payload.event IN
               /\ details'.bipass_filters = (event.type = "app_mention")
               /\ details'.is_bot_msg = FALSE
               /\ details'.msg_to_respond =
                     (IF event.thread_ts # None THEN event.thread_ts
                      ELSE event.ts)
          ELSE
               /\ req.type = "slash_commands"
               /\ details'.bipass_filters = TRUE
               /\ details'.is_bot_msg = TRUE
               /\ details'.msg_to_respond = None
               /\ details'.sender = req.payload.user_id
               /\ details'.sender # None]_vars

\* the details of a thread-root mention have been built
C22_Witness ==
    /\ pc = "lookup"
    /\ details.bipass_filters
    /\ ~details.is_bot_msg
    /\ details.msg_to_respond = "t1"
    /\ details.msg_content = Word

\* --------------------------------------------------------------- C23
Announcements == PostsWithText({"evaluating_your_query"})

\* send_msg_ack_to_user has been called
AfterAnnounce ==
    pc \in {"announce_failed", "handle", "team", "engine", "exhausted",
            "classify", "render", "returned", "clear", "clear_failed"}

\* C23: for a command invocation the announce posts one message, addressed
\* to the sender only, and no reaction is ever added or removed; for a
\* message or mention the announce adds the working reaction and posts
\* nothing, and every removal is of the same reaction on the same channel
\* and timestamp as the add that precedes it.
C23_IndicatorPairs ==
    LET adds    == Calls("reactions_add")
        removes == Calls("reactions_remove")
    IN  IF details.is_bot_msg THEN
            /\ adds = {} /\ removes = {}
            /\ Cardinality(Announcements) <= 1
            /\ AfterAnnounce => Cardinality(Announcements) = 1
            /\ \A i \in Announcements :
                  /\ trace[i].receiver_ids = <<details.sender>>
                  /\ details.sender # None
        ELSE
            /\ Announcements = {}
            /\ AfterAnnounce => Cardinality(adds) = 1
            /\ Cardinality(adds) <= 1 /\ Cardinality(removes) <= 1
            /\ pc = "clear_failed" => Cardinality(removes) = 1
            /\ \A j \in removes : \E i \in adds :
                  /\ i < j
                  /\ trace[i].name = trace[j].name
                  /\ trace[i].channel = trace[j].channel
                  /\ trace[i].timestamp = trace[j].timestamp

\* a message was answered: the reaction was added on its timestamp and
\* removed again at the end
C23_Witness ==
    /\ pc = "done"
    /\ ~details.is_bot_msg
    /\ BlockReplies # {}
    /\ \E i \in Calls("reactions_add") : \E j \in Calls("reactions_remove") :
          i < j /\ trace[i].timestamp = "t1" /\ trace[j].timestamp = "t1"

\* --------------------------------------------------------------- C24
\* the retry loop has been entered
AfterTeamStep ==
    pc \in {"engine", "exhausted", "classify", "render", "returned", "clear",
            "clear_failed"}

\* C24: for a command invocation in a channel with a team routing list,
\* handle_message posts the clarifying note to the sender, once and before
\* any engine invocation, and then goes on as for any request: the engine
\* is invoked, only a response classified Succeeded is rendered, and the
\* block reply is posted exactly when the response is Succeeded.
C24_NoteThenOrchestration ==
    (details.is_bot_msg /\ respond_team_member_list # <<>> /\ AfterTeamStep) =>
        /\ Cardinality(SlashNotes) = 1
        /\ \A q \in SlashNotes :
              /\ trace[q].receiver_ids = <<details.sender>>
              /\ trace[q].channel = details.channel_to_respond
              /\ \A e \in Calls("answer_qa_query") : q < e
        /\ pc # "engine" => EngineCalls >= 1
        /\ pc = "render" =>
              Classify(answer, disable_docs_only_answer) = "Succeeded"
        /\ AfterHandleMessage =>
              (BlockReplies # {} <=>
                  /\ answer # NoAnswer
                  /\ Classify(answer, disable_docs_only_answer) = "Succeeded")

\* a slash command in a channel with a team routing list was answered after
\* the note
C24_Witness ==
    /\ pc = "returned"
    /\ ~failed
    /\ details.is_bot_msg
    /\ respond_team_member_list = <<"a@x.com">>
    /\ SlashNotes # {}
    /\ BlockReplies # {}
    /\ TeamNotices # {}

\* --------------------------------------------------------------- C25
\* C25: whenever the channel config carries answer filters, the reflexion
\* flag passed to the engine equals (the reflexion post-filter is one of
\* them), for every request, whether or not it bypasses the filters.
C25_ReflexionFromFilters ==
    (HasChannelConf(slack_bot_config) /\ slack_bot_config.has_answer_filters) =>
        \A i \in Calls("answer_qa_query") :
            trace[i].enable_reflexion =
                ("well_answered_postfilter" \in slack_bot_config.answer_filters)

\* --------------------------------------------------------------- C27
\* C27: when the lookup returned no configuration and respond-every-channel
\* is off, process_message returns right after the lookup: the calls made
\* for the event are the acknowledgment and the lookups only, and nothing
\* of handle_message has run.
C27_UnconfiguredUntouched ==
    (/\ slack_bot_config.is_none
     /\ ~respond_every_channel
     /\ Calls("get_slack_bot_config_for_channel") # {}) =>
        /\ pc = "done"
        /\ \A i \in DOMAIN trace :
              trace[i].op \in {"send_socket_mode_response", "auth_test",
                               "get_channel_name_from_id",
                               "get_slack_bot_config_for_channel"}
        /\ answer = NoAnswer
        /\ ~failed
        /\ tries = 0

\* a message of an unconfigured channel was dropped after the lookup
C27_Witness ==
    /\ pc = "done"
    /\ slack_bot_config.is_none
    /\ ~respond_every_channel
    /\ details.channel_to_respond = "C1"
    /\ details.msg_content = Word
    /\ trace[Len(trace)] = ConfigLookup

\* --------------------------------------------------------------- C28
\* C28: a block reply that was posted successfully is never followed by the
\* apology, also when the team notice fails.  (The team notice is only
\* called after the block reply returned, lines 214-227; ~failed after a
\* block reply says that the reply and the notice both returned.)
C28_ReplyXorApology ==
    (TeamNotices # {} \/ (BlockReplies # {} /\ ~failed)) => Apologies = {}

\* --------------------------------------------------------------- C29
\* the files of the first n locations, in the order the loops take them
RECURSIVE FilesOf(_)
FilesOf(n) ==
    IF n = 0 THEN <<>>
    ELSE FilesOf(n - 1) \o _open_files_at_location(file_locations[n], n)

\* the files the loops have taken so far
FilesTaken ==
    IF location > Len(file_locations) THEN FilesOf(Len(file_locations))
    ELSE FilesOf(location - 1)
         \o SubSeq(_open_files_at_location(file_locations[location], location),
                   1, opened)

RECURSIVE DocumentsFrom(_)
DocumentsFrom(files) ==
    IF files = <<>> THEN <<>>
    ELSE _process_file(Head(files)) \o DocumentsFrom(Tail(files))

\* C29: load_from_state yields only non-empty batches; every batch except
\* possibly the last one (the rest yielded after the loops) holds at least
\* batch_size documents; and the yielded batches, put end to end and
\* followed by the documents not yet yielded, are exactly the documents of
\* the files taken so far, in order, so that at the end the batches are
\* exactly the documents of all files, none lost and none twice.
C29_BatchesExact ==
    /\ \A k \in DOMAIN batches :
          /\ batches[k] # <<>>
          /\ (k < Len(batches) \/ load_pc # "done") =>
                Len(batches[k]) >= batch_size
    /\ IF load_pc = "done"
       THEN Flatten(batches) = DocumentsFrom(FilesOf(Len(file_locations)))
       ELSE Flatten(batches) \o documents = DocumentsFrom(FilesTaken)

\* with batch_size 2, four files of which one is skipped gave a full batch
\* and a last batch of one document
C29_Witness ==
    /\ load_pc = "done"
    /\ batch_size = 2
    /\ Len(FilesOf(Len(file_locations))) = 4
    /\ Len(batches) = 2
    /\ Len(batches[1]) = 2
    /\ Len(batches[2]) = 1

\* --------------------------------------------------------------- C30
\* C30: when _load_documents_from_filesystem has returned and every thread
\* has ended, every file that was moved to the processed directory has its
\* document in the returned list, and its document was appended to the
\* shared list exactly once.
C30_MovedIsReturned ==
    (main_pc = "returned" /\ \A f \in DOMAIN threads : threads[f] = "done") =>
        \A f \in processed :
            /\ \E k \in DOMAIN returned : returned[k].id = f
            /\ Cardinality({k \in DOMAIN results : results[k].id = f}) = 1

====
